---- MODULE Spec2Model ----
(***************************************************************************)
(* Model of the network coordination layer of simpub:                      *)
(*   - NetManager (src/simpub/core/net_manager.py): the topic/service      *)
(*     registry, the broadcast loop, the service loop, shutdown and join;  *)
(*   - StreamSender / StreamReceiver (src/simpub/connection/streaming.py). *)
(* Threads are modelled by program counters; one action is one step that   *)
(* the interpreter can interleave with the steps of the other threads.     *)
(***************************************************************************)
EXTENDS Integers, Sequences, FiniteSets, TLC

\* ------------------------------------------------------------------ bounds
MaxRegisterCalls == 2   \* registration calls made by the setup thread
MaxRequests == 2        \* requests clients send to the service socket
MaxPublish == 2         \* publish calls on the stream sender
MaxDispatch == 2        \* envelopes handed to execute_callback
MaxInitCalls == 2       \* init_net_manager calls made by each thread

\* ------------------------------------------------------------ value domains
ManagerHost == "h1"
Hosts == {"h1", "h2"}
Topics == {"t1", "t2"}
SetupServices == {"Echo"}
UserCallbacks == {"echo", "echo2"}

EmptyMap == [x \in {} |-> x]
Put(m, k, v) == [x \in DOMAIN m \cup {k} |-> IF x = k THEN v ELSE m[x]]
Range(s) == {s[i] : i \in DOMAIN s}
Count(s, x) == Cardinality({i \in DOMAIN s : s[i] = x})

VARIABLES
  \* NetManager registry (net_manager.py:58-59, 67-68)
  topic_map, host_topic, service_map, service_callback,
  \* NetManager.running and the sockets NetManager owns
  running, pub_socket, service_socket,
  \* the subscriber socket of line 56 and the UDP socket of broadcast_loop
  sub_socket, udp_socket,
  \* the thread that built the manager and goes on calling it
  main_pc, main_arg, calls,
  \* broadcast_loop: position, the dict iteration in progress, the body
  bc_pc, bc_iter, bc_body, bc_sent, bc_last, bc_seen, bc_exact,
  \* service_loop: position, the message in hand, the error raised, the
  \* requests waiting, sent so far, the replies to the message in hand
  svc_pc, svc_msg, svc_cb, svc_err, inbox, sent, replies, inflight,
  \* the two names line 97 unpacks the split message into
  svc_service, svc_request,
  \* streaming.py
  rcv_running, rcv_conn, rcv_thread, rcv_pc, rcv_socket, rcv_filters,
  rcv_pipe, rcv_msg, delivered, app_pc, app_err, disconnected,
  snd_socket, published, publishes,
  \* sf.py: SFSimStreamer's callback table and flag, the handler calls made,
  \* the envelope last dispatched and how execute_callback ended
  register_callback_dict, on_stream, invoked, disp_req, disp_err, dispatched,
  \* init_net_manager: the class attribute NetManager.manager, the NetManager
  \* objects made so far, the addresses bound in this process, the values the
  \* calls returned, and each calling thread's position, host argument, self
  \* and number of calls
  manager, instances, bound_addr, returned, init_pc, init_host, init_self,
  init_calls

regvars == <<topic_map, host_topic, service_map, service_callback>>
sockvars == <<running, pub_socket, service_socket, sub_socket, udp_socket>>
mainvars == <<main_pc, main_arg, calls>>
bcvars == <<bc_pc, bc_iter, bc_body, bc_sent, bc_last, bc_seen, bc_exact>>
svcvars == <<svc_pc, svc_msg, svc_cb, svc_err, inbox, sent, replies,
             inflight, svc_service, svc_request>>
streamvars == <<rcv_running, rcv_conn, rcv_thread, rcv_pc, rcv_socket,
                rcv_filters, rcv_pipe, rcv_msg, delivered, app_pc, app_err,
                disconnected, snd_socket, published, publishes>>
dispvars == <<register_callback_dict, on_stream, invoked, disp_req, disp_err,
              dispatched>>
\* the components that share nothing with the manager and the streams
ctorvars == <<manager, instances, bound_addr, returned, init_pc, init_host,
              init_self, init_calls>>
othervars == <<dispvars, ctorvars>>
vars == <<regvars, sockvars, mainvars, bcvars, svcvars, streamvars, othervars>>

\* ------------------------------------------------------- registry functions
\* register_topic, line 128: self.topic_map[topic] = host
register_topic_map(tm, topic, host) == Put(tm, topic, host)

\* a register_topic that assigns the host's list instead of appending to it
register_topic_list_assign(ht, topic, host) == Put(ht, host, <<topic>>)

\* a register_topic that turns down a host that already has topics
register_topic_list_reject(ht, topic, host) ==
  IF host \in DOMAIN ht THEN ht ELSE Put(ht, host, <<topic>>)

\* register_topic, lines 129-131: create the host's list if missing, append
register_topic_list(ht, topic, host) ==
  LET ht1 == IF host \in DOMAIN ht THEN ht ELSE Put(ht, host, <<>>)
  IN [ht1 EXCEPT ![host] = Append(@, topic)]

\* a register_service that keeps the host a name already has
register_service_map_setdefault(sm, service, host) ==
  IF service \in DOMAIN sm THEN sm ELSE Put(sm, service, host)

\* register_service, line 136 and line 137
register_service_map(sm, service, host) == Put(sm, service, host)
register_service_callback(sc, service, callback) == Put(sc, service, callback)

\* the view broadcast_loop serializes: self.connection_map (lines 70-73)
connection_map(tm, sm) == [Topic |-> tm, Service |-> sm]

\* the value of bc_last while no datagram has just been sent
NoDatagram == connection_map(EmptyMap, EmptyMap)

\* Every registry view that existed during the broadcast cycle in progress.
Seen(tm, sm) ==
  IF bc_pc \in {"dumps_topic", "dumps_service", "send"}
  THEN bc_seen \cup {connection_map(tm, sm)} ELSE bc_seen

\* --------------------------------------------------------- service messages
\* A message is a sequence of tokens: ":" is the delimiter character, every
\* other token is a maximal run of text without ":".
Requests ==
  { <<"Register", ":", "ci1">>,
    <<"Register", ":", "bad">>,
    <<"Nope", ":", "x">>,
    <<"Echo", ":", "x", ":", "y">>,
    <<"junk">> }

\* json.loads of a Client Info payload (line 121)
ClientInfo(body) ==
  IF body = <<"ci1">> THEN [Host |-> "h2", Topics |-> <<"t1", "t2">>]
  ELSE [Host |-> "h2", Topics |-> <<>>]

\* what lines 121-123 raise on a payload: json.loads raises on text that is
\* not JSON, info["Topics"] / info["Host"] raise KeyError on a missing key.
\* "ci1" is the one payload that is a JSON object with both keys.
LoadsError(body) == IF body = <<"ci1">> THEN "none" ELSE "JSONDecodeError"

FirstColon(msg) ==
  IF \E i \in DOMAIN msg : msg[i] = ":"
  THEN CHOOSE i \in DOMAIN msg : msg[i] = ":" /\ \A j \in 1..(i - 1) : msg[j] # ":"
  ELSE 0

\* the last ":" of a message, 0 when it has none
LastColon(msg) ==
  IF \E i \in DOMAIN msg : msg[i] = ":"
  THEN CHOOSE i \in DOMAIN msg :
         msg[i] = ":" /\ \A j \in (i + 1)..Len(msg) : msg[j] # ":"
  ELSE 0

\* a split at the last ":" instead of the first (rsplit)
SplitLast(msg) ==
  LET i == LastColon(msg)
  IN IF i = 0 THEN <<msg>>
     ELSE << SubSeq(msg, 1, i - 1), SubSeq(msg, i + 1, Len(msg)) >>

\* message.split(":", 1), line 97: one part when there is no ":", else two
Split(msg) ==
  LET i == FirstColon(msg)
  IN IF i = 0 THEN <<msg>>
     ELSE << SubSeq(msg, 1, i - 1), SubSeq(msg, i + 1, Len(msg)) >>

\* the text of a part that holds no ":" (at most one token)
Text(part) == IF part = <<>> THEN "" ELSE part[1]

\* register_client(msg), lines 121-123: register_topic for each topic of the
\* payload, in order, against the payload's host
RECURSIVE register_each(_, _, _, _)
register_each(tm, ht, topics, host) ==
  IF topics = <<>> THEN <<tm, ht>>
  ELSE register_each(register_topic_map(tm, Head(topics), host),
                     register_topic_list(ht, Head(topics), host),
                     Tail(topics), host)

register_client(tm, ht, msg) ==
  register_each(tm, ht, ClientInfo(msg).Topics, ClientInfo(msg).Host)

\* positional parameters each callback accepts besides self
\* (register_client(self, msg): line 120; user callbacks take request, socket)
Arity(callback) == IF callback = "register_client" THEN 1 ELSE 2

\* arguments the service loop passes: (request, self.service_socket), line 100
CallArgs == 2

\* ------------------------------------------------------------------- Init
InitManager ==
  /\ topic_map = EmptyMap /\ host_topic = EmptyMap
  /\ service_map = EmptyMap /\ service_callback = EmptyMap
  /\ running = TRUE /\ pub_socket = "open" /\ service_socket = "open"
  /\ sub_socket = "open" /\ udp_socket = "none"
  /\ main_pc = "idle" /\ main_arg = <<>> /\ calls = 0
  /\ bc_pc = "start" /\ bc_iter = {} /\ bc_body = EmptyMap
  /\ bc_sent = FALSE /\ bc_last = NoDatagram
  /\ bc_seen = {} /\ bc_exact = TRUE
  /\ svc_pc = "start" /\ svc_msg = <<>> /\ svc_cb = "" /\ svc_err = "none"
  /\ svc_service = <<>> /\ svc_request = <<>>
  /\ inbox = 0 /\ sent = 0 /\ replies = <<>>
  /\ inflight = 0

\* StreamReceiver.__init__ (lines 14-19) and StreamSender.__init__ (41-48)
InitStream ==
  /\ rcv_running = FALSE /\ rcv_conn = <<>> /\ rcv_thread = "new"
  /\ rcv_pc = "init" /\ rcv_socket = "none" /\ rcv_filters = {}
  /\ rcv_pipe = <<>> /\ rcv_msg = "" /\ delivered = <<>>
  /\ app_pc = "idle" /\ app_err = "none" /\ disconnected = FALSE
  /\ snd_socket = "bound" /\ published = <<>> /\ publishes = 0

\* -------------------------------------------------- sf.py, the dispatcher
\* the message types clients send: the three SFSimStreamer registers itself,
\* one its owner registers later, one nobody registers
MessageTypes ==
  {"start_stream", "close_stream", "manipulate_objects", "custom", "bogus"}

\* decoded envelopes (the result of loads(msg), line 62): a dict with the key
\* "message_type", or a dict without it
Envelopes ==
  [message_type : MessageTypes, payload : {1}] \cup [payload : {1}]

\* the value of disp_req before anything was dispatched
NoEnvelope == [payload |-> 0]

\* what a later register_callback call may add or replace
LateTypes == {"custom", "start_stream"}
LateHandlers == {"on_custom"}

\* register_callback(**kwargs) for one keyword, lines 58-59
register_callback(table, k, cb) == Put(table, k, cb)

\* an execute_callback without the membership test of line 66: the lookup
\* of line 67 raises KeyError on a type that has no handler
execute_callback_lookup(table, request) ==
  IF "message_type" \notin DOMAIN request
  THEN [called |-> <<>>, err |-> "KeyError"]
  ELSE IF request.message_type \in DOMAIN table
  THEN [called |-> <<table[request.message_type]>>, err |-> "none"]
  ELSE [called |-> <<>>, err |-> "KeyError"]

\* an execute_callback that calls the start_stream handler whatever the
\* registered type of the envelope is
execute_callback_default(table, request) ==
  IF "message_type" \notin DOMAIN request
  THEN [called |-> <<>>, err |-> "KeyError"]
  ELSE IF request.message_type \in DOMAIN table
  THEN [called |-> <<table["start_stream"]>>, err |-> "none"]
  ELSE [called |-> <<>>, err |-> "none"]

\* execute_callback(request), lines 65-71: the handlers it calls, in order,
\* and the exception it ends with
execute_callback(table, request) ==
  IF "message_type" \notin DOMAIN request
  THEN [called |-> <<>>, err |-> "KeyError"]
  ELSE IF request.message_type \in DOMAIN table
  THEN [called |-> <<table[request.message_type]>>, err |-> "none"]
  ELSE [called |-> <<>>, err |-> "none"]

\* SFSimStreamer.__init__, lines 33-41
InitDispatch ==
  /\ on_stream = FALSE
  /\ register_callback_dict =
       register_callback(
         register_callback(
           register_callback(EmptyMap, "start_stream", "start_stream"),
           "close_stream", "close_stream"),
         "manipulate_objects", "update_manipulated_object")
  /\ invoked = <<>> /\ disp_req = NoEnvelope /\ disp_err = "none"
  /\ dispatched = 0

\* ------------------------------------------- construction of the manager
\* the threads that call init_net_manager
Callers == {"c1", "c2"}

\* NetManager.manager = None (line 47)
None == 0

\* a constructor that starts the loops before it binds the sockets
CtorStepsSubmitFirst ==
  <<"manager_50", "submit_78", "submit_79", "bind_63", "bind_66">>

\* the statements of NetManager.__init__ that matter to its callers, in the
\* order of the source: line 50 (NetManager.manager = self), line 63 (bind
\* of the pub socket), line 66 (bind of the service socket), lines 78 and 79
\* (submit_task of the two loops)
CtorSteps == <<"manager_50", "bind_63", "bind_66", "submit_78", "submit_79">>

\* where a caller stands in __init__: the statement it executes next
AtCtor(c, step) == init_pc[c] = step

\* the position after a statement of __init__ (line 152 returns the object
\* when the last one is done)
AfterCtor(c) ==
  LET i == CHOOSE j \in DOMAIN CtorSteps : CtorSteps[j] = init_pc[c]
  IN IF i = Len(CtorSteps) THEN "returned" ELSE CtorSteps[i + 1]

\* the module before any call of init_net_manager (line 47)
InitCtor ==
  /\ manager = None /\ instances = <<>> /\ bound_addr = {} /\ returned = {}
  /\ init_pc = [c \in Callers |-> "idle"]
  /\ init_host = [c \in Callers |-> ManagerHost]
  /\ init_self = [c \in Callers |-> None]
  /\ init_calls = [c \in Callers |-> 0]

Init == InitManager /\ InitStream /\ InitDispatch /\ InitCtor

\* ------------------------------------------------- the setup (main) thread
\* register_topic(topic, host), lines 126-128
RegisterTopic_128(topic, host) ==
  /\ main_pc = "idle" /\ calls < MaxRegisterCalls
  /\ topic_map' = register_topic_map(topic_map, topic, host)
  /\ bc_seen' = Seen(topic_map', service_map)
  /\ main_pc' = "rt_129" /\ main_arg' = <<topic, host>> /\ calls' = calls + 1
  /\ UNCHANGED <<host_topic, service_map, service_callback, sockvars,
                 bc_pc, bc_iter, bc_body, bc_sent, bc_last, bc_exact,
                 svcvars, streamvars, othervars>>

\* register_topic, lines 129-131
RegisterTopic_131 ==
  /\ main_pc = "rt_129"
  /\ host_topic' = register_topic_list(host_topic, main_arg[1], main_arg[2])
  /\ main_pc' = "idle" /\ main_arg' = <<>>
  /\ UNCHANGED <<topic_map, service_map, service_callback, sockvars, calls,
                 bcvars, svcvars, streamvars, othervars>>

\* register_service(service, host, callback), line 136
RegisterService_136(service, host, callback) ==
  /\ main_pc = "idle" /\ calls < MaxRegisterCalls
  /\ service_map' = register_service_map(service_map, service, host)
  /\ bc_seen' = Seen(topic_map, service_map')
  /\ main_pc' = "rs_137" /\ main_arg' = <<service, host, callback>>
  /\ calls' = calls + 1
  /\ UNCHANGED <<topic_map, host_topic, service_callback, sockvars,
                 bc_pc, bc_iter, bc_body, bc_sent, bc_last, bc_exact,
                 svcvars, streamvars, othervars>>

\* register_service, line 137
RegisterService_137 ==
  /\ main_pc = "rs_137"
  /\ service_callback' =
       register_service_callback(service_callback, main_arg[1], main_arg[3])
  /\ main_pc' = "idle" /\ main_arg' = <<>>
  /\ UNCHANGED <<topic_map, host_topic, service_map, sockvars, calls,
                 bcvars, svcvars, streamvars, othervars>>

\* shutdown(), line 141: self.pub_socket.close(0)
Shutdown_141 ==
  /\ main_pc = "idle"
  /\ pub_socket' = "closed"
  /\ main_pc' = "sd_142"
  /\ UNCHANGED <<regvars, running, service_socket, sub_socket, udp_socket,
                 main_arg, calls, bcvars,
                 svcvars, streamvars, othervars>>

\* shutdown(), lines 142-144: self.service_socket.close(0); sub_socket_dict
\* is never filled, so the loop over it closes nothing
Shutdown_142 ==
  /\ main_pc = "sd_142"
  /\ service_socket' = "closed"
  /\ main_pc' = "sd_145"
  /\ UNCHANGED <<regvars, running, pub_socket, sub_socket, udp_socket,
                 main_arg, calls, bcvars,
                 svcvars, streamvars, othervars>>

\* shutdown(), line 145: self.running = False
Shutdown_145 ==
  /\ main_pc = "sd_145"
  /\ running' = FALSE
  /\ main_pc' = "join_0"
  /\ UNCHANGED <<regvars, pub_socket, service_socket, sub_socket, udp_socket,
                 main_arg, calls, bcvars,
                 svcvars, streamvars, othervars>>

\* join(), lines 86-87 for futures[0] (broadcast_loop): result() blocks until
\* the task has ended and re-raises what the task raised
Join_broadcast ==
  /\ main_pc = "join_0"
  /\ bc_pc \in {"done", "raised"}
  /\ main_pc' = IF bc_pc = "done" THEN "join_1" ELSE "join_raised"
  /\ UNCHANGED <<regvars, sockvars, main_arg, calls, bcvars, svcvars,
                 streamvars, othervars>>

\* join(), lines 86-88 for futures[1] (service_loop), then executor.shutdown()
Join_service ==
  /\ main_pc = "join_1"
  /\ svc_pc \in {"done", "raised"}
  /\ main_pc' = IF svc_pc = "done" THEN "joined" ELSE "join_raised"
  /\ UNCHANGED <<regvars, sockvars, main_arg, calls, bcvars, svcvars,
                 streamvars, othervars>>

SetupCalls ==
  \/ \E t \in Topics, h \in Hosts : RegisterTopic_128(t, h)
  \/ RegisterTopic_131
  \/ \E s \in SetupServices, h \in Hosts, c \in UserCallbacks :
       RegisterService_136(s, h, c)
  \/ RegisterService_137
  \/ Shutdown_141 \/ Shutdown_142 \/ Shutdown_145

Setup == SetupCalls \/ Join_broadcast \/ Join_service

\* ------------------------------------------------------------ broadcast_loop
\* bc_sent, bc_last, bc_exact describe the datagram a step has just sent; the
\* next step of the loop clears them.
NothingSent == bc_sent' = FALSE /\ bc_last' = NoDatagram /\ bc_exact' = TRUE

\* lines 105-113: the UDP socket and the broadcast address
Broadcast_setup ==
  /\ bc_pc = "start"
  /\ bc_pc' = "while"
  /\ udp_socket' = "open"
  /\ UNCHANGED <<regvars, running, pub_socket, service_socket, sub_socket,
                 mainvars, bc_iter, bc_body, bc_sent,
                 bc_last, bc_seen, bc_exact, svcvars, streamvars, othervars>>

\* line 114: while self.running
Broadcast_while ==
  /\ bc_pc = "while"
  /\ bc_pc' = IF running THEN "dumps" ELSE "done"
  /\ NothingSent
  /\ UNCHANGED <<regvars, sockvars, mainvars, bc_iter, bc_body, bc_seen,
                 svcvars, streamvars, othervars>>

\* line 115, json.dumps: the encoder starts to iterate connection_map["Topic"]
Broadcast_dumps ==
  /\ bc_pc = "dumps"
  /\ bc_iter' = DOMAIN topic_map
  /\ bc_seen' = {connection_map(topic_map, service_map)}
  /\ bc_pc' = "dumps_topic"
  /\ UNCHANGED <<regvars, sockvars, mainvars, bc_body, bc_sent, bc_last,
                 bc_exact, svcvars, streamvars, othervars>>

\* line 115, json.dumps: the iteration of "Topic" ends; a dict that changed
\* size under the iteration raises RuntimeError
Broadcast_dumps_topic ==
  /\ bc_pc = "dumps_topic"
  /\ IF DOMAIN topic_map # bc_iter
     THEN /\ bc_pc' = "raised"
          /\ bc_body' = EmptyMap /\ bc_seen' = {}
     ELSE /\ bc_body' = topic_map
          /\ bc_pc' = "dumps_service"
          /\ UNCHANGED bc_seen
  /\ bc_iter' = {}
  /\ UNCHANGED <<regvars, sockvars, mainvars, bc_sent, bc_last, bc_exact,
                 svcvars, streamvars, othervars>>

\* line 115, json.dumps: the encoder starts to iterate connection_map["Service"]
Broadcast_dumps_service ==
  /\ bc_pc = "dumps_service"
  /\ bc_iter' = DOMAIN service_map
  /\ bc_pc' = "send"
  /\ UNCHANGED <<regvars, sockvars, mainvars, bc_body, bc_sent, bc_last,
                 bc_seen, bc_exact, svcvars, streamvars, othervars>>

\* lines 115-117: the iteration of "Service" ends, the datagram is sent, sleep
Broadcast_send ==
  /\ bc_pc = "send"
  /\ IF DOMAIN service_map # bc_iter
     THEN /\ bc_pc' = "raised"
          /\ UNCHANGED <<bc_sent, bc_last, bc_exact>>
     ELSE /\ bc_sent' = TRUE
          /\ bc_last' = connection_map(bc_body, service_map)
          /\ bc_exact' = (bc_last' \in bc_seen)
          /\ bc_pc' = "while"
  /\ bc_seen' = {} /\ bc_iter' = {} /\ bc_body' = EmptyMap
  /\ UNCHANGED <<regvars, sockvars, mainvars, svcvars, streamvars, othervars>>

BroadcastLoop ==
  \/ Broadcast_setup \/ Broadcast_while \/ Broadcast_dumps
  \/ Broadcast_dumps_topic \/ Broadcast_dumps_service \/ Broadcast_send

\* -------------------------------------------------------------- service_loop
\* lines 92-94 -> register_service line 136, for the built-in "Register"
Service_register_136 ==
  /\ svc_pc = "start"
  /\ service_map' = register_service_map(service_map, "Register", ManagerHost)
  /\ bc_seen' = Seen(topic_map, service_map')
  /\ svc_pc' = "reg_137"
  /\ UNCHANGED <<topic_map, host_topic, service_callback, sockvars, mainvars,
                 bc_pc, bc_iter, bc_body, bc_sent, bc_last, bc_exact,
                 svc_msg, svc_service,
                 svc_request, svc_cb, svc_err, inbox, sent, replies, inflight,
                 streamvars, othervars>>

\* register_service line 137, for the built-in "Register"
Service_register_137 ==
  /\ svc_pc = "reg_137"
  /\ service_callback' =
       register_service_callback(service_callback, "Register", "register_client")
  /\ svc_pc' = "while"
  /\ UNCHANGED <<topic_map, host_topic, service_map, sockvars, mainvars,
                 bcvars, svc_msg, svc_service,
                 svc_request, svc_cb, svc_err, inbox, sent, replies, inflight,
                 streamvars, othervars>>

\* line 95: while self.running
Service_while ==
  /\ svc_pc = "while"
  /\ svc_pc' = IF running THEN "recv" ELSE "done"
  /\ svc_msg' = <<>> /\ svc_cb' = "" /\ replies' = <<>>
  /\ svc_service' = <<>> /\ svc_request' = <<>>
  /\ UNCHANGED <<regvars, sockvars, mainvars, bcvars, svc_err, inbox, sent,
                 inflight, streamvars, othervars>>

\* a loop that takes the next request while a callback is still running
CanReceiveEarly == svc_pc \in {"recv", "callback"}

\* the loop may take the next request only from its receive call
CanReceive == svc_pc = "recv"

\* line 96: recv_string returns the oldest waiting request; what a client
\* wrote in it shows only now
Service_recv(msg) ==
  /\ CanReceive
  /\ service_socket = "open"
  /\ inbox > 0
  /\ svc_msg' = msg /\ inbox' = inbox - 1
  /\ inflight' = inflight + 1
  /\ svc_pc' = "split"
  /\ UNCHANGED <<regvars, sockvars, mainvars, bcvars, svc_cb, svc_err, sent,
                 replies, svc_service, svc_request, streamvars, othervars>>

\* line 96 on a socket that shutdown() closed in another thread: a socket
\* closed before the call raises ZMQError; one closed under a blocked receive
\* raises or never returns
Service_recv_closed ==
  /\ svc_pc = "recv"
  /\ service_socket = "closed"
  /\ \E outcome \in {"raised", "hung"} :
       /\ svc_pc' = outcome
       /\ svc_err' = IF outcome = "raised" THEN "ZMQError" ELSE svc_err
  /\ UNCHANGED <<regvars, sockvars, mainvars, bcvars, svc_msg, svc_service,
                 svc_request, svc_cb, inbox,
                 sent, replies, inflight, streamvars, othervars>>

\* lines 97-98: split on the first ":", unpack into two names (ValueError when
\* there is no ":"), test service in self.service_map
Service_split ==
  /\ svc_pc = "split"
  /\ IF Len(Split(svc_msg)) # 2
     THEN /\ svc_pc' = "raised" /\ svc_err' = "ValueError"
          /\ inflight' = inflight - 1
          /\ UNCHANGED <<svc_service, svc_request>>
     ELSE /\ svc_service' = Split(svc_msg)[1]
          /\ svc_request' = Split(svc_msg)[2]
          /\ svc_pc' = IF Text(svc_service') \in DOMAIN service_map
                       THEN "call" ELSE "invalid"
          /\ UNCHANGED <<svc_err, inflight>>
  /\ UNCHANGED <<regvars, sockvars, mainvars, bcvars, svc_msg, svc_cb, inbox,
                 sent, replies, streamvars, othervars>>

\* line 100: look the callback up (KeyError when the name has none) and call
\* it with (request, self.service_socket) (TypeError when it does not accept
\* two arguments)
Service_call ==
  /\ svc_pc = "call"
  /\ LET service == Text(svc_service)
         err == IF service \notin DOMAIN service_callback THEN "KeyError"
                ELSE IF Arity(service_callback[service]) # CallArgs
                     THEN "TypeError" ELSE "none"
     IN IF err # "none"
        THEN /\ svc_pc' = "raised" /\ svc_err' = err
             /\ inflight' = inflight - 1
             /\ UNCHANGED svc_cb
        ELSE /\ svc_pc' = "callback"
             /\ svc_cb' = service_callback[service]
             /\ UNCHANGED <<svc_err, inflight>>
  /\ UNCHANGED <<regvars, sockvars, mainvars, bcvars, svc_msg, svc_service,
                 svc_request, inbox, sent,
                 replies, streamvars, othervars>>

\* line 100, the body of the callback, which runs in the service loop's thread.
\* register_client (lines 121-123) registers the payload's topics and sends
\* nothing, and whatever json.loads or the key lookups raise leaves the loop;
\* a user callback answers the request on the socket it was handed.
Service_callback ==
  /\ svc_pc = "callback"
  /\ IF svc_cb = "register_client" /\ LoadsError(svc_request) # "none"
     THEN /\ svc_pc' = "raised" /\ svc_err' = LoadsError(svc_request)
          /\ UNCHANGED <<topic_map, host_topic, bc_seen, replies>>
     ELSE IF svc_cb = "register_client"
     THEN /\ topic_map' = register_client(topic_map, host_topic, svc_request)[1]
          /\ host_topic' = register_client(topic_map, host_topic, svc_request)[2]
          /\ bc_seen' = Seen(topic_map', service_map)
          /\ svc_pc' = "while"
          /\ UNCHANGED <<svc_err, replies>>
     ELSE /\ IF service_socket = "closed"
             THEN /\ svc_pc' = "raised" /\ svc_err' = "ZMQError"
                  /\ UNCHANGED replies
             ELSE /\ svc_pc' = "while"
                  /\ replies' = Append(replies, svc_request)
                  /\ UNCHANGED svc_err
          /\ UNCHANGED <<topic_map, host_topic, bc_seen>>
  /\ inflight' = inflight - 1
  /\ UNCHANGED <<service_map, service_callback, sockvars, mainvars, bc_pc,
                 bc_iter, bc_body, bc_sent, bc_last, bc_exact, svc_msg, svc_service,
                 svc_request, svc_cb,
                 inbox, sent, streamvars, othervars>>

\* a reply with the spelling put right
InvalidReplySpelled == <<"Invalid Service">>

\* the reply of line 102
InvalidReply == <<"Invild Service">>

\* line 102: self.service_socket.send_string("Invild Service")
Service_invalid ==
  /\ svc_pc = "invalid"
  /\ IF service_socket = "closed"
     THEN /\ svc_pc' = "raised" /\ svc_err' = "ZMQError"
          /\ UNCHANGED replies
     ELSE /\ svc_pc' = "while"
          /\ replies' = Append(replies, InvalidReply)
          /\ UNCHANGED svc_err
  /\ inflight' = inflight - 1
  /\ UNCHANGED <<regvars, sockvars, mainvars, bcvars, svc_msg, svc_service,
                 svc_request, svc_cb, inbox,
                 sent, streamvars, othervars>>

ServiceLoop ==
  \/ Service_register_136 \/ Service_register_137 \/ Service_while
  \/ (\E m \in Requests : Service_recv(m)) \/ Service_recv_closed
  \/ Service_split \/ Service_call \/ Service_callback \/ Service_invalid

\* a client sends a request, which waits in the service socket's queue
ClientSend ==
  /\ sent < MaxRequests
  /\ service_socket = "open"
  /\ inbox' = inbox + 1 /\ sent' = sent + 1
  /\ UNCHANGED <<regvars, sockvars, mainvars, bcvars, svc_pc, svc_msg, svc_service,
                 svc_request, svc_cb,
                 svc_err, replies, inflight, streamvars, othervars>>

NextManager == Setup \/ BroadcastLoop \/ ServiceLoop \/ ClientSend

Spec == Init /\ [][NextManager]_vars

\* The manager without its broadcast loop. broadcast_loop writes no field of
\* the manager and no other thread reads what it computes (join() only waits
\* for it), so the registry and the service loop behave here as in Spec.
NextService == SetupCalls \/ ServiceLoop \/ ClientSend

ServiceSpec == Init /\ [][NextService]_vars

\* ------------------------------------------------------------- streaming.py
Data == {1, 2}
SenderPort == "P"

\* JsonScene.to_string(data): the text form of the data
to_string(data) == ToString(data)

\* A SUB socket passes a message on when one of its subscriptions is a prefix
\* of it; the empty text "" is a prefix of every message.
Matches(filters, msg) == "" \in filters \/ msg \in filters

\* connect(addr, port), lines 22-23
Connect_23 ==
  /\ app_pc = "idle"
  /\ rcv_conn' = <<"host", SenderPort>>
  /\ rcv_running' = TRUE
  /\ app_pc' = "connect_24"
  /\ UNCHANGED <<othervars, regvars, sockvars, mainvars, bcvars, svcvars, rcv_thread,
                 rcv_pc, rcv_socket, rcv_filters, rcv_pipe, rcv_msg, delivered,
                 app_err, disconnected, snd_socket, published, publishes>>

\* connect, line 24: Thread.start() raises RuntimeError on a thread that was
\* started before
Connect_24 ==
  /\ app_pc = "connect_24"
  /\ IF rcv_thread = "new"
     THEN /\ rcv_thread' = "started" /\ rcv_pc' = "socket"
          /\ app_pc' = "idle" /\ UNCHANGED app_err
     ELSE /\ app_pc' = "raised" /\ app_err' = "RuntimeError"
          /\ UNCHANGED <<rcv_thread, rcv_pc>>
  /\ UNCHANGED <<othervars, regvars, sockvars, mainvars, bcvars, svcvars, rcv_running,
                 rcv_conn, rcv_socket, rcv_filters, rcv_pipe, rcv_msg,
                 delivered, disconnected, snd_socket, published, publishes>>

\* disconnect(), line 27: self.running = False
Disconnect_27 ==
  /\ app_pc = "idle"
  /\ rcv_running' = FALSE
  /\ app_pc' = "disconnect_28"
  /\ UNCHANGED <<othervars, regvars, sockvars, mainvars, bcvars, svcvars, rcv_conn,
                 rcv_thread, rcv_pc, rcv_socket, rcv_filters, rcv_pipe, rcv_msg,
                 delivered, app_err, disconnected, snd_socket, published,
                 publishes>>

\* a join that does not wait for the thread to end
JoinableAtOnce(thread) == thread \in {"started", "finished"}

\* the thread states in which Thread.join() returns
Joinable(thread) == thread = "finished"

\* disconnect, line 28: self._thread.join() raises RuntimeError on a thread
\* that was never started, else returns when the thread has ended
Disconnect_28 ==
  /\ app_pc = "disconnect_28"
  /\ \/ /\ rcv_thread = "new"
        /\ app_pc' = "raised" /\ app_err' = "RuntimeError"
        /\ UNCHANGED disconnected
     \/ /\ rcv_thread # "new" /\ Joinable(rcv_thread)
        /\ app_pc' = "idle" /\ disconnected' = TRUE
        /\ UNCHANGED app_err
  /\ UNCHANGED <<othervars, regvars, sockvars, mainvars, bcvars, svcvars, rcv_running,
                 rcv_conn, rcv_thread, rcv_pc, rcv_socket, rcv_filters,
                 rcv_pipe, rcv_msg, delivered, snd_socket, published,
                 publishes>>

\* _loop, lines 31-39, one step of the receiver thread at its position:
\*   socket   lines 31-32: a SUB socket is created and connected; no
\*            subscription is set on it
\*   while    line 34
\*   recv     line 35: returns when a message waits in the socket's pipe
\*   callback lines 36-37
\*   finally  line 39
Receiver_loop ==
  /\ rcv_thread = "started"
  /\ CASE rcv_pc = "socket" ->
            /\ rcv_socket' = "connected" /\ rcv_filters' = {}
            /\ rcv_pc' = "while"
            /\ UNCHANGED <<rcv_thread, rcv_pipe, rcv_msg, delivered>>
       [] rcv_pc = "while" ->
            /\ rcv_pc' = IF rcv_running THEN "recv" ELSE "finally"
            /\ UNCHANGED <<rcv_thread, rcv_socket, rcv_filters, rcv_pipe,
                           rcv_msg, delivered>>
       [] rcv_pc = "recv" ->
            /\ rcv_pipe # <<>>
            /\ rcv_msg' = Head(rcv_pipe) /\ rcv_pipe' = Tail(rcv_pipe)
            /\ rcv_pc' = "callback"
            /\ UNCHANGED <<rcv_thread, rcv_socket, rcv_filters, delivered>>
       [] rcv_pc = "callback" ->
            /\ delivered' = Append(delivered, rcv_msg)
            /\ rcv_pc' = "while"
            /\ UNCHANGED <<rcv_thread, rcv_socket, rcv_filters, rcv_pipe,
                           rcv_msg>>
       [] rcv_pc = "finally" ->
            /\ rcv_socket' = "closed" /\ rcv_pipe' = <<>>
            /\ rcv_pc' = "done" /\ rcv_thread' = "finished"
            /\ UNCHANGED <<rcv_filters, rcv_msg, delivered>>
  /\ UNCHANGED <<othervars, regvars, sockvars, mainvars, bcvars, svcvars, rcv_running,
                 rcv_conn, app_pc, app_err, disconnected, snd_socket,
                 published, publishes>>

\* publish(data), line 54: the PUB socket hands the text to every connected
\* subscriber whose subscriptions match it, and drops it for the others.
\* published keeps the texts published while the receiver was connected.
Publish(data) ==
  /\ snd_socket = "bound"
  /\ publishes < MaxPublish
  /\ publishes' = publishes + 1
  /\ LET text == to_string(data)
     IN IF rcv_socket = "connected"
        THEN /\ published' = Append(published, text)
             /\ rcv_pipe' = IF Matches(rcv_filters, text)
                            THEN Append(rcv_pipe, text) ELSE rcv_pipe
        ELSE UNCHANGED <<published, rcv_pipe>>
  /\ UNCHANGED <<othervars, regvars, sockvars, mainvars, bcvars, svcvars, rcv_running,
                 rcv_conn, rcv_thread, rcv_pc, rcv_socket, rcv_filters, rcv_msg,
                 delivered, app_pc, app_err, disconnected, snd_socket>>

\* stop(), line 51
Stop ==
  /\ snd_socket = "bound"
  /\ snd_socket' = "closed"
  /\ UNCHANGED <<othervars, regvars, sockvars, mainvars, bcvars, svcvars, rcv_running,
                 rcv_conn, rcv_thread, rcv_pc, rcv_socket, rcv_filters,
                 rcv_pipe, rcv_msg, delivered, app_pc, app_err, disconnected,
                 published, publishes>>

NextStream ==
  \/ Connect_23 \/ Connect_24 \/ Disconnect_27 \/ Disconnect_28
  \/ Receiver_loop
  \/ (\E d \in Data : Publish(d)) \/ Stop

StreamSpec == Init /\ [][NextStream]_vars

\* the receiver thread and the thread blocked in join() are scheduled: each
\* takes its next step when it can
StreamFairSpec ==
  StreamSpec /\ WF_vars(Receiver_loop) /\ WF_vars(Disconnect_28)

\* Threads that can take a step are scheduled: the loops run in pool threads,
\* and a call the setup thread has entered runs to its end. Nothing obliges
\* the setup thread to start a call or a client to send a request.
\* ------------------------------------------------- sf.py, SFSimStreamer
\* register_callback(k=cb) called by the streamer's owner, lines 57-59
RegisterCallback(k, cb) ==
  /\ register_callback_dict' = register_callback(register_callback_dict, k, cb)
  /\ UNCHANGED <<on_stream, invoked, disp_req, disp_err, dispatched>>
  /\ UNCHANGED <<regvars, sockvars, mainvars, bcvars, svcvars, streamvars,
                 ctorvars>>

\* process_message / execute_callback on one decoded envelope, lines 62-71.
\* The coroutine has no await between its first line and the call of the
\* handler, so it is one step of the event loop. The bodies of the handlers
\* are not part of the dispatcher: a call is recorded, not carried out.
ExecuteCallback(request) ==
  /\ dispatched < MaxDispatch
  /\ LET r == execute_callback(register_callback_dict, request)
     IN /\ invoked' = invoked \o [i \in DOMAIN r.called |->
                                    <<r.called[i], request>>]
        /\ disp_err' = r.err
  /\ disp_req' = request
  /\ dispatched' = dispatched + 1
  /\ UNCHANGED <<register_callback_dict, on_stream>>
  /\ UNCHANGED <<regvars, sockvars, mainvars, bcvars, svcvars, streamvars,
                 ctorvars>>

NextDispatch ==
  \/ \E k \in LateTypes, cb \in LateHandlers : RegisterCallback(k, cb)
  \/ \E request \in Envelopes : ExecuteCallback(request)

DispatchSpec == Init /\ [][NextDispatch]_vars

\* ------------------------------------------------------ init_net_manager
\* init_net_manager(host), lines 150-152: return the class attribute when it
\* is set, else go on to NetManager(host)
InitNetManager_150(c, host) ==
  /\ init_pc[c] \in {"idle", "returned", "raised"}
  /\ init_calls[c] < MaxInitCalls
  /\ init_calls' = [init_calls EXCEPT ![c] = @ + 1]
  /\ init_host' = [init_host EXCEPT ![c] = host]
  /\ IF manager # None
     THEN /\ init_pc' = [init_pc EXCEPT ![c] = "returned"]
          /\ returned' = returned \cup {manager}
     ELSE /\ init_pc' = [init_pc EXCEPT ![c] = CtorSteps[1]]
          /\ UNCHANGED returned
  /\ UNCHANGED <<manager, instances, bound_addr, init_self>>
  /\ UNCHANGED <<regvars, sockvars, mainvars, bcvars, svcvars, streamvars,
                 dispvars>>

\* the value init_net_manager returns when __init__ is done (line 152)
Returned(c) ==
  IF AfterCtor(c) = "returned" THEN returned \cup {init_self[c]} ELSE returned

\* __init__, line 50: a new object, NetManager.manager = self
Ctor_50(c) ==
  /\ AtCtor(c, "manager_50")
  /\ instances' = Append(instances,
                         [host |-> init_host[c], state |-> "building",
                          futures |-> <<>>])
  /\ init_self' = [init_self EXCEPT ![c] = Len(instances) + 1]
  /\ manager' = Len(instances) + 1
  /\ init_pc' = [init_pc EXCEPT ![c] = AfterCtor(c)]
  /\ UNCHANGED <<bound_addr, returned, init_host, init_calls>>
  /\ UNCHANGED <<regvars, sockvars, mainvars, bcvars, svcvars, streamvars,
                 dispvars>>

\* socket.bind of lines 63 and 66: it raises ZMQError when the address is in
\* use, by a socket of this process or by another process (ok = FALSE), and
\* the exception leaves __init__ and init_net_manager
Bind(c, port, ok) ==
  LET addr == <<init_host[c], port>>
  IN IF ok /\ addr \notin bound_addr
     THEN /\ bound_addr' = bound_addr \cup {addr}
          /\ init_pc' = [init_pc EXCEPT ![c] = AfterCtor(c)]
          /\ returned' = Returned(c)
          /\ instances' = [instances EXCEPT ![init_self[c]].state =
                             IF AfterCtor(c) = "returned" THEN "built" ELSE @]
     ELSE /\ init_pc' = [init_pc EXCEPT ![c] = "raised"]
          /\ instances' = [instances EXCEPT ![init_self[c]].state = "raised"]
          /\ UNCHANGED <<bound_addr, returned>>

\* __init__, lines 62-63: the pub socket
Ctor_63(c, ok) ==
  /\ AtCtor(c, "bind_63")
  /\ Bind(c, "TOOPIC", ok)
  /\ UNCHANGED <<manager, init_host, init_self, init_calls>>
  /\ UNCHANGED <<regvars, sockvars, mainvars, bcvars, svcvars, streamvars,
                 dispvars>>

\* __init__, lines 65-66: the service socket
Ctor_66(c, ok) ==
  /\ AtCtor(c, "bind_66")
  /\ Bind(c, "SERVICE", ok)
  /\ UNCHANGED <<manager, init_host, init_self, init_calls>>
  /\ UNCHANGED <<regvars, sockvars, mainvars, bcvars, svcvars, streamvars,
                 dispvars>>

\* submit_task(task), lines 82-83, as called at lines 78 and 79
Submit(c, task) ==
  /\ instances' = [instances EXCEPT ![init_self[c]] =
                     [@ EXCEPT !.futures = Append(@, task),
                               !.state = IF AfterCtor(c) = "returned"
                                         THEN "built" ELSE @]]
  /\ init_pc' = [init_pc EXCEPT ![c] = AfterCtor(c)]
  /\ returned' = Returned(c)

\* __init__, lines 75-78
Ctor_78(c) ==
  /\ AtCtor(c, "submit_78")
  /\ Submit(c, "broadcast_loop")
  /\ UNCHANGED <<manager, bound_addr, init_host, init_self, init_calls>>
  /\ UNCHANGED <<regvars, sockvars, mainvars, bcvars, svcvars, streamvars,
                 dispvars>>

\* __init__, line 79, and the return of line 152
Ctor_79(c) ==
  /\ AtCtor(c, "submit_79")
  /\ Submit(c, "service_loop")
  /\ UNCHANGED <<manager, bound_addr, init_host, init_self, init_calls>>
  /\ UNCHANGED <<regvars, sockvars, mainvars, bcvars, svcvars, streamvars,
                 dispvars>>

NextCtor ==
  \/ \E c \in Callers, host \in Hosts : InitNetManager_150(c, host)
  \/ \E c \in Callers : Ctor_50(c) \/ Ctor_78(c) \/ Ctor_79(c)
  \/ \E c \in Callers, ok \in BOOLEAN : Ctor_63(c, ok) \/ Ctor_66(c, ok)

CtorSpec == Init /\ [][NextCtor]_vars

FairSpec ==
  /\ Spec
  /\ WF_vars(BroadcastLoop)
  /\ WF_vars(ServiceLoop)
  /\ WF_vars(RegisterTopic_131 \/ RegisterService_137 \/ Shutdown_142
             \/ Shutdown_145 \/ Join_broadcast \/ Join_service)

\* ------------------------------------------------------------------ claims
\* no register_topic call is between its two writes
BetweenCalls == main_pc # "rt_129"

\* C1: after any sequence of register_topic calls, every topic of topic_map
\* appears exactly once in the topic list of the host that owns it.
C1_TopicExactlyOnce ==
  BetweenCalls =>
    \A t \in DOMAIN topic_map :
      /\ topic_map[t] \in DOMAIN host_topic
      /\ Count(host_topic[topic_map[t]], t) = 1

\* C2: between register_topic calls, the owner of every topic of topic_map is
\* a key of host_topic and the topic is in the owner's list at least once.
C2_TopicInOwnerList ==
  BetweenCalls =>
    \A t \in DOMAIN topic_map :
      /\ topic_map[t] \in DOMAIN host_topic
      /\ t \in Range(host_topic[topic_map[t]])

\* a topic that was registered to one host and then to another
C2_Witness ==
  /\ BetweenCalls
  /\ \E t \in DOMAIN topic_map : \E h \in DOMAIN host_topic :
       h # topic_map[t] /\ t \in Range(host_topic[h])

\* the service loop has finished with the message in svc_msg
Processed == svc_msg # <<>> /\ svc_pc \in {"while", "raised", "done"}

\* C3: once a well-formed request Register:<Client Info> has been processed,
\* every topic of the payload is attributed to the payload's host.
C3_RegisterAttributesTopics ==
  (Processed /\ Len(Split(svc_msg)) = 2 /\ Text(Split(svc_msg)[1]) = "Register")
    => LET info == ClientInfo(Split(svc_msg)[2])
       IN \A i \in DOMAIN info.Topics :
            /\ info.Topics[i] \in DOMAIN topic_map
            /\ topic_map[info.Topics[i]] = info.Host

\* C4: the step that finds the service name unregistered changes neither the
\* registry nor the replies; the step that answers it on the open service
\* socket sends exactly "Invild Service", changes none of topic_map,
\* host_topic, service_map, service_callback, and returns to the head of the
\* loop.
C4_UnknownService ==
  [][/\ (svc_pc = "split" /\ svc_pc' = "invalid")
          => UNCHANGED <<regvars, replies>>
     /\ (svc_pc = "invalid" /\ svc_pc' # "invalid" /\ service_socket = "open")
          => /\ replies' = << <<"Invild Service">> >>
             /\ UNCHANGED regvars
             /\ svc_pc' = "while"]_vars

\* an unknown service has just been answered
C4_Witness ==
  /\ svc_pc = "while" /\ svc_msg = <<"Nope", ":", "x">>
  /\ replies = << <<"Invild Service">> >>

\* C5: the broadcast loop never fails in the serialization, and every body it
\* sends equals the registry as it stood at one instant of that cycle.
C5_BroadcastAtomic == bc_pc # "raised" /\ (bc_sent => bc_exact)

\* C6: every datagram the broadcast loop sends carries Service["Register"]
\* with the manager's host.
C6_BroadcastHasRegister ==
  bc_sent => /\ "Register" \in DOMAIN bc_last.Service
             /\ bc_last.Service["Register"] = ManagerHost

\* C9: at most one request is being handled, a request is being handled
\* exactly while the loop is between its receive and the end of the handling,
\* and the loop receives only from its receive call.
C9_OneInFlight ==
  /\ inflight <= 1
  /\ inflight = 1 <=> svc_pc \in {"split", "call", "callback", "invalid"}

\* a callback runs while another request waits in the queue
C9_Witness == svc_pc = "callback" /\ inflight = 1 /\ inbox > 0

\* C10: when shutdown() has closed the sockets while the service loop is in
\* its receive call with no request waiting, both loops go on to return
\* normally and join() returns.
C10_LoopsReturn ==
  (main_pc = "sd_145" /\ svc_pc = "recv" /\ inbox = 0 /\ bc_pc # "raised")
    ~> (bc_pc = "done" /\ svc_pc = "done" /\ main_pc = "joined")

\* the receiver's socket is connected and no message is on its way
Quiet == rcv_pc = "recv" /\ rcv_pipe = <<>>

\* C7: whenever the connected receiver waits with nothing on its way, its
\* callback has been invoked once for every text published while it was
\* connected, in the order of the publish calls.
C7_PublishDelivered == Quiet => delivered = published

\* C8: once disconnect() has returned, the receiver thread, the only caller of
\* the callback, has ended: no invocation is in progress and none can start.
C8_NoCallbackAfterDisconnect ==
  disconnected => rcv_thread = "finished" /\ rcv_pc = "done"

\* disconnect() has returned on a receiver that was connected while texts were
\* published
C8_Witness == disconnected /\ published # <<>>


\* C11: once a Register request whose payload is malformed (not JSON, or
\* without Host or Topics) has been processed, the service loop has not been
\* ended by an exception: only that request failed.
C11_MalformedRegisterSurvives ==
  (/\ Processed
   /\ Len(Split(svc_msg)) = 2
   /\ Text(Split(svc_msg)[1]) = "Register"
   /\ LoadsError(Split(svc_msg)[2]) # "none")
    => svc_pc # "raised"

\* C12: a step of execute_callback on an envelope whose message_type is not
\* a key of the callback table calls no handler, ends without an exception
\* and leaves the callback table and the streamer's flag as they were.
C12_UnknownTypeDropped ==
  [][(/\ dispatched' = dispatched + 1
      /\ "message_type" \in DOMAIN disp_req'
      /\ disp_req'.message_type \notin DOMAIN register_callback_dict)
     => /\ invoked' = invoked
        /\ disp_err' = "none"
        /\ register_callback_dict' = register_callback_dict
        /\ on_stream' = on_stream]_vars

\* an envelope of a type nobody registers has been dispatched, after some
\* handler had already been called
C12_Witness ==
  /\ dispatched = 2
  /\ "message_type" \in DOMAIN disp_req
  /\ disp_req.message_type = "bogus"
  /\ Len(invoked) = 1

\* C13: a NetManager whose constructor was left by a failed bind of the pub
\* or of the service socket has no loop submitted, and the thread that was
\* constructing it got the exception instead of an object.
C13_BindFailureBeforeLoops ==
  \A i \in DOMAIN instances :
    instances[i].state = "raised"
      => /\ instances[i].futures = <<>>
         /\ \A c \in Callers :
              (init_self[c] = i /\ init_pc[c] \notin {"idle", "returned"})
                => init_pc[c] = "raised"

\* a constructor bound the pub socket and failed to bind the service socket
C13_Witness ==
  \E i \in DOMAIN instances :
    /\ instances[i].state = "raised"
    /\ <<instances[i].host, "TOOPIC">> \in bound_addr
    /\ \E c \in Callers : init_self[c] = i /\ init_pc[c] = "raised"

\* C14: at most one NetManager is ever constructed, all calls of
\* init_net_manager return the same object, and NetManager.manager keeps
\* its value once it is set.
C14_SingleManager ==
  [][/\ Len(instances') <= 1
     /\ Cardinality(returned') <= 1
     /\ (manager # None => manager' = manager)]_vars

\* C15: no connect and no disconnect of a StreamReceiver ends with an
\* exception, whatever calls came before it: a connect on a connected
\* receiver and a disconnect on one that is not connected just return.
C15_ConnectDisconnectIdempotent == app_pc # "raised" /\ app_err = "none"

\* C16: once shutdown has returned and both loops have ended, none of the
\* sockets the manager created (pub, service, subscriber, the UDP socket of
\* the broadcast loop) is still open.
C16_NoSocketLeftOpen ==
  (/\ main_pc \in {"join_0", "join_1", "joined", "join_raised"}
   /\ bc_pc \in {"done", "raised"}
   /\ svc_pc \in {"done", "raised"})
    => /\ pub_socket = "closed" /\ service_socket = "closed"
       /\ sub_socket = "closed" /\ udp_socket # "open"

\* C17: register_service(name, host, callback) has no failing path. Its
\* first step (line 136) makes service_map[name] the host and changes no
\* other entry of service_map, nor topic_map, host_topic, service_callback;
\* its second step (line 137) makes service_callback[name] the callback and
\* changes no other entry, nor topic_map, host_topic, service_map, so that
\* on return service_map[name] is the host and service_callback[name] the
\* callback, whatever the name had before.
C17_RegisterServiceOverwrites ==
  [][/\ (main_pc = "idle" /\ main_pc' = "rs_137")
        => /\ DOMAIN service_map' = DOMAIN service_map \cup {main_arg'[1]}
           /\ service_map'[main_arg'[1]] = main_arg'[2]
           /\ \A n \in DOMAIN service_map \ {main_arg'[1]} :
                service_map'[n] = service_map[n]
           /\ UNCHANGED <<topic_map, host_topic, service_callback>>
     /\ (main_pc = "rs_137" /\ main_pc' = "idle")
        => /\ DOMAIN service_callback' =
                DOMAIN service_callback \cup {main_arg[1]}
           /\ service_callback'[main_arg[1]] = main_arg[3]
           /\ \A n \in DOMAIN service_callback \ {main_arg[1]} :
                service_callback'[n] = service_callback[n]
           /\ service_map'[main_arg[1]] = main_arg[2]
           /\ UNCHANGED <<topic_map, host_topic, service_map>>
     /\ main_pc = "rs_137" => main_pc' \in {"rs_137", "idle"}]_vars

\* a second register_service of "Echo", with another host and another
\* callback than the first, is between its two assignments
C17_Witness ==
  /\ main_pc = "rs_137" /\ calls = 2
  /\ main_arg = <<"Echo", "h2", "echo2">>
  /\ service_map["Echo"] = "h2"
  /\ "Echo" \in DOMAIN service_callback /\ service_callback["Echo"] = "echo"
  /\ "Register" \in DOMAIN service_callback

\* C18: register_topic(topic, host) has no rejecting path, also for a host
\* that already has topics. Its first step (line 128) makes topic_map[topic]
\* the host; its second step (lines 129-131) makes host_topic[host] the list
\* it was (empty for a new host) with the topic appended at the end, leaves
\* the lists of all other hosts alone, and topic_map[topic] is the host when
\* the call returns.
C18_RegisterTopicAppends ==
  [][/\ (main_pc = "idle" /\ main_pc' = "rt_129")
        => /\ topic_map'[main_arg'[1]] = main_arg'[2]
           /\ UNCHANGED host_topic
     /\ (main_pc = "rt_129" /\ main_pc' = "idle")
        => LET topic == main_arg[1]
               host == main_arg[2]
               before == IF host \in DOMAIN host_topic
                         THEN host_topic[host] ELSE <<>>
           IN /\ DOMAIN host_topic' = DOMAIN host_topic \cup {host}
              /\ host_topic'[host] = before \o <<topic>>
              /\ \A h \in DOMAIN host_topic \ {host} :
                   host_topic'[h] = host_topic[h]
              /\ topic_map'[topic] = host
     /\ main_pc = "rt_129" => main_pc' \in {"rt_129", "idle"}]_vars

\* two register_topic calls for the same host have returned: the second
\* found the host in host_topic and appended to its list
C18_Witness ==
  /\ main_pc = "idle" /\ calls = 2
  /\ \E h \in DOMAIN host_topic : Len(host_topic[h]) = 2

\* C19: once the service loop has finished with a Register request, exactly
\* one reply to it has been sent.
C19_RegisterRepliedOnce ==
  (/\ Processed
   /\ Len(Split(svc_msg)) = 2
   /\ Text(Split(svc_msg)[1]) = "Register")
    => Len(replies) = 1

\* C20: as long as the running flag is set the broadcast loop has not ended
\* (it goes on announcing), and no step of the broadcast loop changes the
\* registry.
C20_BroadcastRunsWhileFlagSet ==
  [][/\ running' => bc_pc' \notin {"done", "raised"}
     /\ bc_pc' # bc_pc => UNCHANGED regvars]_vars

\* C21: a disconnect() that has cleared the running flag of a receiver whose
\* thread was started eventually returns, whether or not a message arrives.
C21_DisconnectReturns ==
  (app_pc = "disconnect_28" /\ rcv_thread = "started") ~> app_pc = "idle"

\* C22: a step of execute_callback on an envelope whose message_type is a
\* key of the callback table makes exactly one handler call, of the handler
\* the table holds for that type, with the whole envelope as its argument,
\* and ends without an exception; this holds in every reachable state, so
\* whatever was dispatched before.
C22_KnownTypeInvokedOnce ==
  [][(/\ dispatched' = dispatched + 1
      /\ "message_type" \in DOMAIN disp_req'
      /\ disp_req'.message_type \in DOMAIN register_callback_dict)
     => /\ invoked' =
             Append(invoked,
                    <<register_callback_dict[disp_req'.message_type],
                      disp_req'>>)
        /\ disp_err' = "none"]_vars

\* manipulate_objects was dispatched with no start_stream before it, then a
\* start_stream whose handler had been replaced by register_callback
C22_Witness ==
  /\ dispatched = 2 /\ Len(invoked) = 2
  /\ invoked[1] = <<"update_manipulated_object",
                    [message_type |-> "manipulate_objects", payload |-> 1]>>
  /\ invoked[2] = <<"on_custom",
                    [message_type |-> "start_stream", payload |-> 1]>>

\* C23: for every message with a ":" that the service loop has split, the
\* service name holds no ":", and name, ":" and request body put together
\* are the message: the name is the text before the first ":", the body is
\* all of the rest. The body a callback was handed (the text the echoing
\* callback sent back) is that rest, further ":" included.
C23_SplitAtFirstColon ==
  (/\ svc_msg # <<>>
   /\ svc_pc \notin {"recv", "split"}
   /\ \E i \in DOMAIN svc_msg : svc_msg[i] = ":")
    => /\ \A i \in DOMAIN svc_service : svc_service[i] # ":"
       /\ svc_service \o <<":">> \o svc_request = svc_msg
       /\ (svc_cb \in UserCallbacks /\ replies # <<>>)
            => svc_service \o <<":">> \o replies[1] = svc_msg

\* the request Echo:x:y was handed to the echoing callback, which sent its
\* body x:y back
C23_Witness ==
  /\ Processed
  /\ svc_msg = <<"Echo", ":", "x", ":", "y">>
  /\ svc_service = <<"Echo">>
  /\ replies = << <<"x", ":", "y">> >>

\* C24: between register_topic calls, every topic in a host's list is owned
\* by that host: for every host h and every t in host_topic[h],
\* topic_map[t] = h.
C24_ListedTopicsOwned ==
  BetweenCalls =>
    \A h \in DOMAIN host_topic : \A t \in Range(host_topic[h]) :
      t \in DOMAIN topic_map /\ topic_map[t] = h

\* C25: when the service loop has found the service name of a request in
\* service_map (line 98) and goes on to look its callback up (line 100),
\* service_callback has an entry for that name.
C25_FoundServiceHasCallback ==
  svc_pc = "call" => Text(svc_service) \in DOMAIN service_callback

\* C26: the service loop never receives or sends on the service socket
\* after shutdown() closed it: no receive or send of the loop has failed
\* with ZMQError, and none is stuck on the closed socket.
C26_NoUseAfterClose == svc_err # "ZMQError" /\ svc_pc # "hung"

====
